---- MODULE Spec2Model ----
(***************************************************************************)
(* The concurrent scrape-and-upload pipeline of plex-poster-set-helper:    *)
(* ScrapeHandler.process_scrape_urls (the batch thread), the worker        *)
(* threads of its ThreadPoolExecutor running _scrape_and_upload_url, and   *)
(* ScrapeHandler.cancel called from the GUI thread.                        *)
(*                                                                         *)
(* URLs of a batch are the indices 1..total_urls, in submission order.     *)
(***************************************************************************)
EXTENDS Integers, Sequences, FiniteSets, TLC

\* ---------------------------------------------------------------- bounds
MaxUrls == 3
MaxWorkers == 2
MaxPosters == 2
MaxRaises == 1
MaxUrlsRaise == 2
MaxPerKind == 2
MaxClicks == 2
MaxUrlsRepeat == 2
MaxTimeout == 2
MaxPollTime == 1
MaxSleepTime == 2

Urls == 1..MaxUrls
\* The numbers of descriptors a fetch returns: none, or MaxPosters.
PosterCounts == {0, MaxPosters}

VARIABLES
  \* --- the batch thread (process_scrape_urls)
  pc,                     \* position of the batch thread
  total_urls,             \* len(urls)
  max_workers,            \* the value read from max_workers_var
  submitted,              \* how many executor.submit calls have returned
  completed,              \* local counter of the as_completed loop
  total_posters_uploaded, \* local counter of the as_completed loop
  future,                 \* the future the loop is handling (0: none)
  cancel_idx,             \* position of the loop "for f in future_to_url"
  exc,                    \* exception travelling up the batch thread
  libraries,              \* what _setup_services found: "unknown" before it ran
  \* --- ScrapeHandler fields
  is_cancelled,
  active_executor,        \* TRUE: the executor of the batch, FALSE: None
  \* --- the ThreadPoolExecutor and its futures
  ex_shutdown,            \* executor._shutdown
  work_queue,             \* executor._work_queue (work items, by URL index)
  num_threads,            \* len(executor._threads)
  idle_semaphore,         \* executor._idle_semaphore
  fstate,                 \* future._state, per URL
  \* --- as_completed
  ac_started,             \* the generator has taken its snapshot
  ac_ready,               \* finished futures not yet yielded, in yield order
  ac_yielded,             \* number of futures yielded
  \* --- the tasks (_scrape_and_upload_url), per URL
  fetch_calls,            \* calls of scraper_factory.scrape_url
  nposters,               \* descriptors returned by the fetch
  upload_calls,           \* calls of upload_service.process_poster
  fail_at,                \* the call that raised: -1 none, 0 the fetch, j the j-th upload
  res_count,              \* first component of the returned tuple
  res_err,                \* second component: TRUE for an error message, FALSE for None
  \* --- the GUI thread
  cancel_pc,              \* position inside _cancel_operation / cancel
  buttons_enabled,        \* scrape / import buttons
  cancel_shown,           \* cancel button packed
  cancel_enabled,         \* cancel button state
  window,                 \* the main window exists (not yet closed)
  \* --- what the observer (the app) has been told
  rows,                   \* the statuses set on each URL's row, in order
  progress,               \* the calls of _update_progress, in order
  outcome,                \* final statuses emitted by the batch, in order
  events,                 \* row and progress calls of the batch, in one sequence
  \* --- bookkeeping for the properties
  cancel_at,              \* futures FINISHED when cancel() set the flag (-1: no cancel)
  done_order,             \* futures done and not yet yielded, in the order they got done
  early_left,             \* how many of them were done before as_completed started
  raises,                 \* callback exceptions the observer may still raise
  \* --- how far a behaviour goes
  clicks_left,            \* clicks on a start button still to come
  url_cap,                \* the most URLs a URL list holds
  \* --- one call of _scrape_and_upload_url, taken by itself
  t_pc,                   \* position inside the call
  t_in,                   \* what scrape_url returns and which call raises
  t_calls,                \* the calls made so far, in order
  t_result,               \* the returned tuple
  \* --- one call of poll_pin (plex_auth_service.py)
  p_pc,                   \* position inside the call
  p_timeout,              \* the timeout argument, in units of poll_interval
  p_bad_interval,         \* poll_interval is negative
  p_elapsed,              \* time.time() - start, in the same units
  p_polls,                \* the responses of the polls made so far, in order
  p_result                \* the returned tuple

vars == <<libraries, pc, total_urls, max_workers, submitted, completed,
          total_posters_uploaded, future, cancel_idx, exc, is_cancelled,
          active_executor, ex_shutdown, work_queue, num_threads,
          idle_semaphore, fstate, ac_started, ac_ready,
          ac_yielded, fetch_calls, nposters, upload_calls, fail_at,
          res_count, res_err, cancel_pc, buttons_enabled, cancel_shown, cancel_enabled,
          window, rows, progress, outcome, events, cancel_at,
          done_order, early_left, raises, clicks_left, url_cap,
          t_pc, t_in, t_calls, t_result,
          p_pc, p_timeout, p_bad_interval, p_elapsed, p_polls, p_result>>

batchVars == <<pc, total_urls, max_workers, submitted, completed,
               total_posters_uploaded, future, cancel_idx, exc>>
poolVars == <<ex_shutdown, work_queue, num_threads, idle_semaphore, fstate>>
acVars == <<ac_started, ac_ready, ac_yielded>>
taskVars == <<fetch_calls, nposters, upload_calls, fail_at, res_count, res_err>>
guiVars == <<cancel_pc, buttons_enabled, cancel_shown, cancel_enabled, window>>
obsVars == <<rows, progress, outcome, events>>
ghostVars == <<cancel_at, done_order, early_left>>
launchVars == <<clicks_left, url_cap>>
oneTaskVars == <<t_pc, t_in, t_calls, t_result>>
pollVars == <<p_pc, p_timeout, p_bad_interval, p_elapsed, p_polls, p_result>>
sideVars == <<oneTaskVars, pollVars>>

\* ------------------------------------------------------------- helpers
Min(a, b) == IF a <= b THEN a ELSE b

RECURSIVE SumOver(_, _)
SumOver(f, S) ==
  IF S = {} THEN 0
  ELSE LET x == CHOOSE y \in S : TRUE IN f[x] + SumOver(f, S \ {x})

\* All orders in which the elements of S can be listed.
RECURSIVE Orders(_)
Orders(S) ==
  IF S = {} THEN {<<>>}
  ELSE UNION {{<<x>> \o t : t \in Orders(S \ {x})} : x \in S}

\* The sequence q without the element x.
Without(q, x) == SelectSeq(q, LAMBDA y : y # x)

\* One call of _set_url_row_status or _update_progress, as the observer
\* receives it.
Event(kind, url) == [kind |-> kind, url |-> url]

\* _set_url_row_status(urls[i], status, row_list) on the rows r.
SetRow(r, i, status) == [r EXCEPT ![i] = Append(@, status)]

Running == {i \in Urls : fstate[i] = "RUNNING"}
Finished == {i \in Urls : fstate[i] = "FINISHED"}
\* future.done()
Done(i) == fstate[i] \in {"CANCELLED", "CANCELLED_AND_NOTIFIED", "FINISHED"}
IdleThreads == num_threads - Cardinality(Running)

\* ---------------------------------------------------------------- Init
NoResult == [count |-> 0, err |-> FALSE]
NoInput == [movies |-> 0, shows |-> 0, collections |-> 0, raise_at |-> -1]

\* No call of _scrape_and_upload_url is looked at by itself.
OneTaskOff ==
  t_pc = "off" /\ t_in = NoInput /\ t_calls = <<>> /\ t_result = NoResult

\* Python's None.
None == "None"
NoReturn == [token |-> None, error |-> None, info |-> None]

\* No call of poll_pin is looked at.
PollOff ==
  /\ p_pc = "off" /\ p_timeout = 0 /\ p_bad_interval = FALSE
  /\ p_elapsed = 0 /\ p_polls = <<>> /\ p_result = NoReturn

\* The application after construction (ScrapeHandler.__init__, lines 17-19;
\* app.py 632-642: the cancel button exists, enabled and not packed).
BatchInit(r, clicks, cap) ==
  /\ clicks_left = clicks /\ url_cap = cap
  /\ pc = "idle"
  /\ total_urls = 0 /\ max_workers = 0 /\ submitted = 0
  /\ completed = 0 /\ total_posters_uploaded = 0
  /\ future = 0 /\ cancel_idx = 0 /\ exc = "none"
  /\ libraries = "unknown"
  /\ is_cancelled = FALSE /\ active_executor = FALSE
  /\ ex_shutdown = FALSE /\ work_queue = <<>>
  /\ num_threads = 0 /\ idle_semaphore = 0
  /\ fstate = [i \in Urls |-> "NONE"]
  /\ ac_started = FALSE /\ ac_ready = <<>> /\ ac_yielded = 0
  /\ fetch_calls = [i \in Urls |-> 0]
  /\ nposters = [i \in Urls |-> 0]
  /\ upload_calls = [i \in Urls |-> 0]
  /\ fail_at = [i \in Urls |-> -1]
  /\ res_count = [i \in Urls |-> 0]
  /\ res_err = [i \in Urls |-> FALSE]
  /\ cancel_pc = "idle"
  /\ buttons_enabled = TRUE /\ cancel_shown = FALSE /\ cancel_enabled = TRUE
  /\ window = TRUE
  /\ rows = [i \in Urls |-> <<>>]
  /\ progress = <<>>
  /\ outcome = <<>>
  /\ events = <<>>
  /\ cancel_at = -1
  /\ done_order = <<>> /\ early_left = 0
  /\ raises = r

\* One click, the observer's callbacks never raise.
Init == BatchInit(0, 1, MaxUrls) /\ OneTaskOff /\ PollOff
\* One click on a list of at most MaxUrlsRaise URLs; the observer's callbacks
\* may raise, MaxRaises times at most.
InitRaise == BatchInit(MaxRaises, 1, MaxUrlsRaise) /\ OneTaskOff /\ PollOff
\* ------------------------------------------------- the thread pool
\* A pool that starts one thread more than it was given.
PoolSizePlusOne(mw) == mw + 1

\* ThreadPoolExecutor(max_workers=max_workers): the most threads the pool starts.
PoolSize(mw) == mw

\* executor.submit: queue the work item of URL i and start a thread unless
\* an idle one is signalled or PoolSize threads exist.
SubmitTask(i) ==
  /\ fstate' = [fstate EXCEPT ![i] = "PENDING"]
  /\ work_queue' = Append(work_queue, i)
  /\ IF idle_semaphore > 0
       THEN idle_semaphore' = idle_semaphore - 1 /\ num_threads' = num_threads
       ELSE /\ idle_semaphore' = idle_semaphore
            /\ num_threads' = IF num_threads < PoolSize(max_workers)
                                THEN num_threads + 1 ELSE num_threads

\* A waiter that puts the newest finished future first.
NotifyFront(i) == IF ac_started THEN <<i>> \o ac_ready ELSE ac_ready

\* A waiter of as_completed is told of a future that finished or whose
\* cancellation a worker noticed; before the generator starts there is none.
Notify(i) == IF ac_started THEN Append(ac_ready, i) ELSE ac_ready

\* ------------------------------------------- the GUI: starting a batch
\* A click that starts a batch whatever the URL list holds.
NoUrlsNever(n) == FALSE

\* app.py 859 / 878: "if not urls".
NoUrls(n) == n = 0

\* The start buttons while an invocation runs as if they were never disabled.
StateNormal == TRUE

\* _disable_buttons (app.py 894-899): state="disabled" on both start buttons.
StateDisabled == FALSE

\* What a new invocation starts from: its locals (lines 36-37, 47, 55-56),
\* futures that do not exist yet, tasks that have not run, and a record of
\* row, progress and status calls that starts anew. The ScrapeHandler fields
\* and the cancel button are not touched.
NewInvocation ==
  /\ max_workers' = 0 /\ submitted' = 0
  /\ completed' = 0 /\ total_posters_uploaded' = 0
  /\ future' = 0 /\ cancel_idx' = 0 /\ exc' = "none"
  /\ libraries' = "unknown"
  /\ ex_shutdown' = FALSE /\ work_queue' = <<>>
  /\ num_threads' = 0 /\ idle_semaphore' = 0
  /\ fstate' = [i \in Urls |-> "NONE"]
  /\ ac_started' = FALSE /\ ac_ready' = <<>> /\ ac_yielded' = 0
  /\ fetch_calls' = [i \in Urls |-> 0]
  /\ nposters' = [i \in Urls |-> 0]
  /\ upload_calls' = [i \in Urls |-> 0]
  /\ fail_at' = [i \in Urls |-> -1]
  /\ res_count' = [i \in Urls |-> 0]
  /\ res_err' = [i \in Urls |-> FALSE]
  /\ rows' = [i \in Urls |-> <<>>]
  /\ progress' = <<>>
  /\ outcome' = <<>>
  /\ events' = <<>>
  /\ cancel_at' = -1
  /\ done_order' = <<>> /\ early_left' = 0

\* _run_url_scrape_thread / _run_bulk_import_thread, one click on a start
\* button, which takes the button to be enabled and the GUI thread to be free:
\* with no URL the status "No URLs ..." and nothing else; otherwise buttons
\* disabled and process_scrape_urls started on a new thread.
RunUrlScrapeThread ==
  /\ window /\ buttons_enabled /\ cancel_pc = "idle"
  /\ clicks_left > 0 /\ clicks_left' = clicks_left - 1
  /\ UNCHANGED url_cap
  /\ \E n \in 0..url_cap :
       IF NoUrls(n)
         THEN /\ outcome' = Append(outcome, [kind |-> "no_urls", completed |-> 0,
                                             posters |-> 0])
              /\ pc' = "done"
              /\ UNCHANGED <<total_urls, max_workers, submitted, completed,
                             total_posters_uploaded, future, cancel_idx, exc,
                             libraries, poolVars, acVars, taskVars,
                             buttons_enabled, rows, progress, events,
                             ghostVars>>
         ELSE /\ total_urls' = n
              /\ buttons_enabled' = StateDisabled
              /\ pc' = "setup"
              /\ NewInvocation
  /\ UNCHANGED <<is_cancelled, active_executor, cancel_pc, cancel_shown,
                 cancel_enabled, window, raises>>
  /\ UNCHANGED sideVars

\* ---------------------------------------------- process_scrape_urls
\* A check that lets a batch go on without libraries.
LibrariesNeverMissing(found) == FALSE

\* Line 31: neither TV nor movie libraries after _setup_services.
LibrariesMissing(found) == ~found

\* Lines 28-34: service setup; without libraries the batch reports, hides the
\* progress display and returns through the finally clause (lines 127-128).
SetupServices ==
  /\ pc = "setup"
  /\ \E found \in BOOLEAN :
       /\ libraries' = IF found THEN "found" ELSE "none"
       /\ IF ~LibrariesMissing(found)
         THEN pc' = "begin" /\ UNCHANGED <<outcome, cancel_shown, buttons_enabled>>
         ELSE /\ outcome' = Append(outcome, [kind |-> "incomplete", completed |-> 0, posters |-> 0])
              /\ cancel_shown' = FALSE
              /\ buttons_enabled' = TRUE
              /\ pc' = "done"
  /\ UNCHANGED <<total_urls, max_workers, submitted, completed,
                 total_posters_uploaded, future, cancel_idx, exc,
                 is_cancelled, active_executor, poolVars, acVars, taskVars,
                 cancel_pc, cancel_enabled, window, rows, progress, events,
                 ghostVars, raises>>
  /\ UNCHANGED <<launchVars, sideVars>>

\* Lines 36-42: read max_workers, clear the flag, first progress call, show
\* the cancel button.
BeginBatch ==
  /\ pc = "begin"
  /\ \E mw \in 0..MaxWorkers :
       /\ max_workers' = mw
       /\ progress' = Append(progress, [completed |-> 0, url |-> 0, active |-> mw])
  /\ events' = Append(events, Event("progress", 0))
  /\ is_cancelled' = FALSE
  /\ cancel_at' = -1
  /\ cancel_shown' = TRUE
  /\ pc' = "pool"
  /\ UNCHANGED <<total_urls, submitted, completed, total_posters_uploaded,
                 future, cancel_idx, exc, active_executor, poolVars, acVars,
                 taskVars, cancel_pc, buttons_enabled, cancel_enabled, window,
                 rows, outcome, done_order, early_left, raises>>
  /\ UNCHANGED <<launchVars, sideVars, libraries>>

\* A pool constructor that accepts any size.
PoolCreationNeverFails(mw) == FALSE

\* Line 45: ThreadPoolExecutor raises ValueError for max_workers <= 0.
PoolCreationFails(mw) == mw <= 0

\* Lines 45-46: the pool, a new executor that is not shut down (whatever a
\* cancel() did to the executor an earlier batch left in active_executor), or
\* the ValueError of its constructor.
CreatePool ==
  /\ pc = "pool"
  /\ IF PoolCreationFails(max_workers)
       THEN /\ exc' = "pool" /\ pc' = "except"
            /\ UNCHANGED <<active_executor, ex_shutdown>>
       ELSE /\ active_executor' = TRUE /\ ex_shutdown' = FALSE
            /\ pc' = "submit" /\ UNCHANGED exc
  /\ UNCHANGED <<total_urls, max_workers, submitted, completed,
                 total_posters_uploaded, future, cancel_idx, is_cancelled,
                 work_queue, num_threads, idle_semaphore, fstate,
                 acVars, taskVars, guiVars, obsVars, ghostVars, raises>>
  /\ UNCHANGED <<launchVars, sideVars, libraries>>

\* Line 48: one executor.submit per URL, in order; submit raises RuntimeError
\* once the executor is shut down, which leaves the with block (LeaveWith).
Submit ==
  /\ pc = "submit" /\ submitted < total_urls
  /\ cancel_pc # "draining"
  /\ IF ex_shutdown
       THEN /\ exc' = "submit" /\ pc' = "join"
            /\ UNCHANGED <<submitted, poolVars>>
       ELSE /\ SubmitTask(submitted + 1)
            /\ submitted' = submitted + 1
            /\ UNCHANGED <<exc, pc, ex_shutdown>>
  /\ UNCHANGED <<total_urls, max_workers, completed, total_posters_uploaded,
                 future, cancel_idx, is_cancelled, active_executor, acVars,
                 taskVars, guiVars, obsVars, ghostVars, raises>>
  /\ UNCHANGED <<launchVars, sideVars, libraries>>

\* Leaving the with block (by break, at the end of the loop or with an
\* exception): executor.shutdown(wait=True) sets _shutdown and joins the
\* worker threads (JoinThreads).
LeaveWith == /\ ex_shutdown' = TRUE
             /\ pc' = "join"

\* Lines 55-63: the first min(max_workers, total_urls) rows are marked
\* 'processing'; the counters start at 0; as_completed of no future ends the
\* loop at once.
MarkInitial ==
  /\ pc = "submit" /\ submitted = total_urls
  /\ rows' = [i \in Urls |->
                IF i <= Min(max_workers, total_urls)
                  THEN Append(rows[i], "processing") ELSE rows[i]]
  /\ events' = events \o [i \in 1..Min(max_workers, total_urls) |->
                            Event("processing", i)]
  /\ completed' = 0
  /\ total_posters_uploaded' = 0
  /\ IF total_urls = 0
       THEN LeaveWith
       ELSE pc' = "loop" /\ UNCHANGED ex_shutdown
  /\ UNCHANGED <<total_urls, max_workers, submitted, future, cancel_idx, exc,
                 is_cancelled, active_executor, work_queue, num_threads,
                 idle_semaphore, fstate, acVars, taskVars,
                 guiVars, progress, outcome, ghostVars, raises>>
  /\ UNCHANGED <<launchVars, sideVars, libraries>>

\* A loop that does not look at the flag.
NeverSeesCancel == FALSE

\* Line 64: the flag as the loop reads it for each yielded future.
SeesCancel == is_cancelled

\* Lines 63-64 and 73: the next future of as_completed. Its first call takes
\* the futures that are already done, in no particular order; afterwards
\* futures are yielded in the order the waiter was told of them.
AsCompletedNext ==
  /\ pc = "loop"
  /\ \E ready \in IF ac_started THEN {ac_ready}
                  ELSE Orders({i \in 1..total_urls :
                         fstate[i] \in {"FINISHED", "CANCELLED_AND_NOTIFIED"}}) :
       /\ ac_started' = TRUE
       /\ IF ready # <<>>
            THEN /\ ac_ready' = Tail(ready)
                 /\ done_order' = Without(done_order, Head(ready))
                 /\ early_left' = IF ac_started
                                    THEN (IF early_left > 0 THEN early_left - 1 ELSE 0)
                                    ELSE Len(ready) - 1
                 /\ ac_yielded' = ac_yielded + 1
                 /\ IF SeesCancel
                      THEN pc' = "cancelling" /\ cancel_idx' = 1 /\ UNCHANGED future
                      ELSE pc' = "process" /\ future' = Head(ready) /\ UNCHANGED cancel_idx
            ELSE /\ ~ac_started
                 /\ ac_ready' = ready
                 /\ UNCHANGED <<pc, ac_yielded, future, cancel_idx,
                                done_order, early_left>>
  /\ UNCHANGED <<total_urls, max_workers, submitted, completed,
                 total_posters_uploaded, exc, is_cancelled, active_executor,
                 poolVars, taskVars, guiVars, obsVars, cancel_at, raises>>
  /\ UNCHANGED <<launchVars, sideVars, libraries>>

\* Lines 66-68: the loop "for f in future_to_url" visits the futures in
\* submission order; f.cancel() changes only a future that is still PENDING,
\* so one step is the visit of the next PENDING future.
PendingFrom(k) == {i \in k..total_urls : fstate[i] = "PENDING"}

CancelPendingFuture ==
  /\ pc = "cancelling" /\ PendingFrom(cancel_idx) # {}
  /\ LET i == CHOOSE j \in PendingFrom(cancel_idx) :
                 \A k \in PendingFrom(cancel_idx) : j <= k
     IN /\ fstate' = [fstate EXCEPT ![i] = "CANCELLED"]
        /\ cancel_idx' = i + 1
  /\ UNCHANGED <<pc, total_urls, max_workers, submitted, completed,
                 total_posters_uploaded, future, exc, is_cancelled,
                 active_executor, ex_shutdown, work_queue, num_threads,
                 idle_semaphore, acVars, taskVars, guiVars,
                 obsVars, ghostVars, raises>>
  /\ UNCHANGED <<launchVars, sideVars, libraries>>

\* Lines 69-71: the cancelled status, then break.
ReportCancelled ==
  /\ pc = "cancelling" /\ PendingFrom(cancel_idx) = {}
  /\ outcome' = Append(outcome, [kind |-> "cancelled", completed |-> completed,
                                 posters |-> total_posters_uploaded])
  /\ LeaveWith
  /\ UNCHANGED <<total_urls, max_workers, submitted, completed,
                 total_posters_uploaded, future, cancel_idx, exc, is_cancelled,
                 active_executor, work_queue, num_threads, idle_semaphore,
                 fstate, acVars, taskVars, guiVars, rows,
                 progress, events, ghostVars, raises>>
  /\ UNCHANGED <<launchVars, sideVars, libraries>>

\* A loop that attributes the k-th result to the k-th URL of the list.
UrlByPosition(f) == completed + 1

\* Line 73: url = future_to_url[future], the URL the future was submitted
\* for (futures are named by the index of their URL).
UrlOf(f) == f

\* The row marked 'processing' after the c-th completion: urls[c + max_workers - 1].
NextRow(c) == c + max_workers

\* The 'processing' call for the row after the c-th completion, if there is
\* such a row (lines 95-97 and 110-112).
NextEvents(c) ==
  IF NextRow(c) <= total_urls THEN <<Event("processing", NextRow(c))>> ELSE <<>>

\* Lines 101-116, the handler of an exception raised while a result is
\* processed; r2 names the callback of the handler that raises ("none": none).
HandleResultError(f, rowsX, cX, tpX, evX, r2) ==
  IF r2 = "row"
    THEN [rows |-> rowsX, completed |-> cX, posters |-> tpX,
          progress |-> progress, events |-> evX, raised |-> TRUE]
    ELSE
      LET rows1 == SetRow(rowsX, UrlOf(f), "error")
          ev1 == Append(evX, Event("error", UrlOf(f)))
          c1 == cX + 1
          rows2 == IF NextRow(c1) <= total_urls
                     THEN SetRow(rows1, NextRow(c1), "processing") ELSE rows1
          ev2 == ev1 \o NextEvents(c1)
      IN IF r2 = "next"
           THEN [rows |-> rows1, completed |-> c1, posters |-> tpX,
                 progress |-> progress, events |-> ev1, raised |-> TRUE]
         ELSE IF r2 = "progress"
           THEN [rows |-> rows2, completed |-> c1, posters |-> tpX,
                 progress |-> progress, events |-> ev2, raised |-> TRUE]
         ELSE [rows |-> rows2, completed |-> c1, posters |-> tpX,
               progress |-> Append(progress,
                  [completed |-> c1, url |-> UrlOf(f),
                   active |-> Min(total_urls - c1, max_workers)]),
               events |-> Append(ev2, Event("progress", UrlOf(f))),
               raised |-> FALSE]

\* An increment that is lost when another result is already waiting.
CountCompletedLost(c) == IF ac_ready # <<>> THEN c ELSE c + 1

\* A loop that forgets to count a processed result.
CountCompletedNot(c) == c

\* Line 92.
CountCompleted(c) == c + 1

\* A loop that keeps the last poster_count in place of the sum.
AddPostersOverwrite(f) ==
  IF res_err[f] THEN total_posters_uploaded ELSE res_count[f]

\* Lines 82-90: only a result without error adds its poster_count.
AddPosters(f) ==
  IF res_err[f] THEN total_posters_uploaded
  ELSE total_posters_uploaded + res_count[f]

\* A loop that emits the snapshot before it marks the next row.
SnapshotThenNext(f, c) == <<Event("progress", UrlOf(f))>> \o NextEvents(c)

\* Lines 94-99: with the result counted, first the 'processing' call for the
\* next row, then the snapshot of this result.
NextThenSnapshot(f, c) == NextEvents(c) \o <<Event("progress", UrlOf(f))>>

\* Lines 73-99, the result of future f; r1 names the callback of the try
\* block that raises ("none": none).
HandleResult(f, r1, r2) ==
  LET active_workers == Min(total_urls - completed - 1, max_workers)
      status == IF res_err[f] THEN "error" ELSE "completed"
      rowsA == SetRow(rows, UrlOf(f), status)
      evA == Append(events, Event(status, UrlOf(f)))
      tpA == AddPosters(f)
      cA == CountCompleted(completed)
      rowsB == IF NextRow(cA) <= total_urls
                 THEN SetRow(rowsA, NextRow(cA), "processing") ELSE rowsA
  IN IF r1 = "row"
       THEN HandleResultError(f, rows, completed, total_posters_uploaded,
                              events, r2)
     ELSE IF r1 = "next"
       THEN HandleResultError(f, rowsA, cA, tpA, evA, r2)
     ELSE IF r1 = "progress"
       THEN HandleResultError(f, rowsB, cA, tpA, evA \o NextEvents(cA), r2)
     ELSE [rows |-> rowsB, completed |-> cA, posters |-> tpA,
           progress |-> Append(progress,
              [completed |-> cA, url |-> UrlOf(f), active |-> active_workers]),
           events |-> evA \o NextThenSnapshot(f, cA),
           raised |-> FALSE]

\* The callbacks that can raise at a point where c results are counted.
RaisePoints(budget, c) ==
  IF budget > 0
    THEN {"row", "progress"} \cup (IF NextRow(c + 1) <= total_urls THEN {"next"} ELSE {})
    ELSE {}

\* Lines 73-116: one iteration of the loop body on the yielded future. An
\* exception of the handler leaves the with block; so does the end of the
\* loop, once as_completed has yielded every future.
ProcessResult ==
  /\ pc = "process"
  /\ \E r1 \in {"none"} \cup RaisePoints(raises, completed) :
     \E r2 \in {"none"} \cup (IF r1 = "none" THEN {}
                ELSE RaisePoints(raises - 1,
                       IF r1 = "row" THEN completed ELSE completed + 1)) :
       LET o == HandleResult(future, r1, r2) IN
         /\ rows' = o.rows
         /\ completed' = o.completed
         /\ total_posters_uploaded' = o.posters
         /\ progress' = o.progress
         /\ events' = o.events
         /\ raises' = raises - (IF r1 = "none" THEN 0 ELSE 1)
                             - (IF r2 = "none" THEN 0 ELSE 1)
         /\ IF o.raised
              THEN exc' = "callback" /\ LeaveWith
              ELSE /\ exc' = exc
                   /\ IF ac_yielded = total_urls
                        THEN LeaveWith
                        ELSE pc' = "loop" /\ UNCHANGED ex_shutdown
  /\ future' = 0
  /\ UNCHANGED <<total_urls, max_workers, submitted, cancel_idx, is_cancelled,
                 active_executor, work_queue, num_threads, idle_semaphore,
                 fstate, acVars, taskVars, guiVars, outcome, ghostVars>>
  /\ UNCHANGED <<launchVars, sideVars, libraries>>

\* The join of shutdown(wait=True): a worker returns once it finds the
\* queue empty after shutdown, so the join ends when no work item is queued
\* and no task is running.
JoinThreads ==
  /\ pc = "join"
  /\ work_queue = <<>> /\ Running = {} /\ cancel_pc # "draining"
  /\ pc' = IF exc = "none" THEN "after" ELSE "except"
  /\ UNCHANGED <<total_urls, max_workers, submitted, completed,
                 total_posters_uploaded, future, cancel_idx, exc, is_cancelled,
                 active_executor, poolVars, acVars, taskVars, guiVars, obsVars,
                 ghostVars, raises>>
  /\ UNCHANGED <<launchVars, sideVars, libraries>>

\* Lines 118-121, then the finally clause (lines 127-128).
Finish ==
  /\ pc = "after"
  /\ active_executor' = FALSE
  /\ outcome' = IF ~is_cancelled
                  THEN Append(outcome, [kind |-> "success", completed |-> total_urls,
                                        posters |-> total_posters_uploaded])
                  ELSE outcome
  /\ cancel_shown' = FALSE
  /\ buttons_enabled' = TRUE
  /\ pc' = "done"
  /\ UNCHANGED <<total_urls, max_workers, submitted, completed,
                 total_posters_uploaded, future, cancel_idx, exc, is_cancelled,
                 poolVars, acVars, taskVars, cancel_pc,
                 cancel_enabled, window, rows, progress, events, ghostVars,
                 raises>>
  /\ UNCHANGED <<launchVars, sideVars, libraries>>

\* Lines 123-125, then the finally clause (lines 127-128).
HandleFatal ==
  /\ pc = "except"
  /\ cancel_shown' = FALSE
  /\ outcome' = Append(outcome, [kind |-> "error", completed |-> 0, posters |-> 0])
  /\ buttons_enabled' = TRUE
  /\ pc' = "done"
  /\ UNCHANGED <<total_urls, max_workers, submitted, completed,
                 total_posters_uploaded, future, cancel_idx, exc, is_cancelled,
                 active_executor, poolVars, acVars, taskVars, cancel_pc,
                 cancel_enabled, window, rows, progress, events, ghostVars,
                 raises>>
  /\ UNCHANGED <<launchVars, sideVars, libraries>>

\* -------------------------------------------------- the worker threads
\* future.set_result at the end of _WorkItem.run: the tuple returned by
\* _scrape_and_upload_url (line 167 or 174), the waiter told, the thread idle.
TaskReturn(i, count, err) ==
  /\ fstate' = [fstate EXCEPT ![i] = "FINISHED"]
  /\ res_count' = [res_count EXCEPT ![i] = count]
  /\ res_err' = [res_err EXCEPT ![i] = err]
  /\ ac_ready' = Notify(i)
  /\ idle_semaphore' = idle_semaphore + 1
  /\ done_order' = Append(done_order, i)

TaskContinues ==
  UNCHANGED <<fstate, res_count, res_err, ac_ready, idle_semaphore, done_order>>

\* An idle worker thread takes the next work item; a future cancelled in the
\* meantime is not run (set_running_or_notify_cancel), any other is started.
WorkerTake ==
  /\ IdleThreads > 0 /\ work_queue # <<>>
  /\ LET i == Head(work_queue) IN
       /\ work_queue' = Tail(work_queue)
       /\ IF fstate[i] = "CANCELLED"
            THEN /\ fstate' = [fstate EXCEPT ![i] = "CANCELLED_AND_NOTIFIED"]
                 /\ ac_ready' = Notify(i)
                 /\ idle_semaphore' = idle_semaphore + 1
                 /\ done_order' = Append(done_order, i)
            ELSE /\ fstate' = [fstate EXCEPT ![i] = "RUNNING"]
                 /\ UNCHANGED <<ac_ready, idle_semaphore, done_order>>
  /\ UNCHANGED <<batchVars, is_cancelled, active_executor, ex_shutdown,
                 num_threads, ac_started, ac_yielded,
                 taskVars, guiVars, obsVars, cancel_at, early_left,
                 raises>>
  /\ UNCHANGED <<launchVars, sideVars, libraries>>

\* A task that reports the uploads made before the exception.
TaskFailsPartial(i) == TaskReturn(i, upload_calls[i], TRUE)

\* A task that swallows the exception and returns (0, None).
TaskFailsSilently(i) == TaskReturn(i, 0, FALSE)

\* Lines 168-174: an exception of the fetch or of an upload ends the task
\* with (0, error message).
TaskFails(i) == TaskReturn(i, 0, TRUE)

\* A task that stops at its next call once the flag is set.
CanRunUnlessCancelled(i) == fstate[i] = "RUNNING" /\ ~is_cancelled

\* Lines 139-167: the task runs on its worker from start to return; it reads
\* neither is_cancelled nor the state of the executor.
CanRun(i) == fstate[i] = "RUNNING"

\* Lines 139-151: the fetch; it raises or returns the descriptors.
Fetch(i) ==
  /\ CanRun(i) /\ fetch_calls[i] = 0
  /\ fetch_calls' = [fetch_calls EXCEPT ![i] = 1]
  /\ \/ \E d \in PosterCounts :
          /\ nposters' = [nposters EXCEPT ![i] = d]
          /\ IF d = 0 THEN TaskReturn(i, 0, FALSE) ELSE TaskContinues
          /\ UNCHANGED fail_at
     \/ /\ fail_at' = [fail_at EXCEPT ![i] = 0]
        /\ TaskFails(i)
        /\ UNCHANGED nposters
  /\ UNCHANGED <<batchVars, is_cancelled, active_executor, ex_shutdown,
                 work_queue, num_threads, ac_started,
                 ac_yielded, upload_calls, guiVars, obsVars, cancel_at, early_left, raises>>
  /\ UNCHANGED <<launchVars, sideVars, libraries>>

\* A task that catches the exception of one process_poster call and goes on
\* with the next descriptor.
UploadRaisesContinues(i) ==
  /\ fail_at' = [fail_at EXCEPT ![i] = IF @ = -1 THEN upload_calls[i] + 1 ELSE @]
  /\ IF upload_calls[i] + 1 = nposters[i]
       THEN TaskReturn(i, 0, TRUE) ELSE TaskContinues

\* Lines 154-161 when process_poster raises: no try around the single call,
\* so the exception ends the loops and reaches line 168.
UploadRaises(i) ==
  /\ fail_at' = [fail_at EXCEPT ![i] = upload_calls[i] + 1]
  /\ TaskFails(i)

\* Lines 154-167: one process_poster call; after the last one the task
\* returns (total_posters, None).
Upload(i) ==
  /\ CanRun(i) /\ fetch_calls[i] = 1
  /\ upload_calls[i] < nposters[i]
  /\ upload_calls' = [upload_calls EXCEPT ![i] = @ + 1]
  /\ \/ /\ IF upload_calls[i] + 1 = nposters[i]
             THEN TaskReturn(i, nposters[i], res_err[i]) ELSE TaskContinues
        /\ UNCHANGED fail_at
     \/ UploadRaises(i)
  /\ UNCHANGED <<batchVars, is_cancelled, active_executor, ex_shutdown,
                 work_queue, num_threads, ac_started,
                 ac_yielded, fetch_calls, nposters, guiVars, obsVars,
                 cancel_at, early_left,
                 raises>>
  /\ UNCHANGED <<launchVars, sideVars, libraries>>

\* ------------------------------------------------ the GUI: cancelling
\* Line 178: the value cancel() writes to is_cancelled.
CancelFlag == TRUE

\* process_scrape_urls is between line 39 and its return.
InBatch == pc \notin {"idle", "setup", "begin", "done"}

\* Line 178, reached from _cancel_operation or from _on_closing.
CancelBegins ==
  /\ is_cancelled' = CancelFlag
  /\ cancel_at' = IF cancel_at = -1 /\ InBatch THEN Cardinality(Finished) ELSE cancel_at
  /\ UNCHANGED <<done_order, early_left>>
  /\ cancel_pc' = "flagged"

\* _cancel_operation (app.py 958-961): a click on the cancel button while it
\* is shown and enabled.
CancelOperation ==
  /\ window /\ cancel_shown /\ cancel_enabled /\ cancel_pc = "idle"
  /\ CancelBegins
  /\ UNCHANGED <<batchVars, active_executor, poolVars, acVars, taskVars,
                 buttons_enabled, cancel_shown, cancel_enabled, window,
                 obsVars, raises>>
  /\ UNCHANGED <<launchVars, sideVars, libraries>>

\* _on_closing (app.py 647-660): closing the window calls cancel() at any
\* time; the GUI thread handles no other event afterwards.
OnClosing ==
  /\ window /\ cancel_pc = "idle"
  /\ window' = FALSE
  /\ CancelBegins
  /\ UNCHANGED <<batchVars, active_executor, poolVars, acVars, taskVars,
                 buttons_enabled, cancel_shown, cancel_enabled,
                 obsVars, raises>>
  /\ UNCHANGED <<launchVars, sideVars, libraries>>

\* What shutdown(cancel_futures=True) does with a queued work item.
DrainItem(i) == [fstate EXCEPT ![i] = IF @ = "PENDING" THEN "CANCELLED" ELSE @]

\* cancel() has returned: _cancel_operation disables the cancel button
\* (app.py 962-964); _on_closing goes on to destroy the window.
CancelReturns ==
  /\ cancel_pc' = "idle"
  /\ cancel_enabled' = IF window THEN FALSE ELSE cancel_enabled

\* shutdown(wait=False, cancel_futures=True) takes the work items off the
\* queue one at a time, cancelling the future of each; with the queue empty it
\* returns.
DrainStep ==
  IF work_queue # <<>>
    THEN /\ fstate' = DrainItem(Head(work_queue))
         /\ work_queue' = Tail(work_queue)
         /\ IF Len(work_queue) > 1
              THEN cancel_pc' = "draining" /\ UNCHANGED cancel_enabled
              ELSE CancelReturns
    ELSE /\ CancelReturns
         /\ UNCHANGED <<fstate, work_queue>>

\* Lines 179-181: with an executor, shutdown sets _shutdown and starts to
\* drain; without one, cancel() returns.
CancelShutdown ==
  /\ cancel_pc = "flagged"
  /\ IF active_executor
       THEN ex_shutdown' = TRUE /\ DrainStep
       ELSE /\ CancelReturns
            /\ UNCHANGED <<ex_shutdown, fstate, work_queue>>
  /\ UNCHANGED <<batchVars, is_cancelled, active_executor,
                 num_threads, idle_semaphore, acVars,
                 taskVars, buttons_enabled, cancel_shown, window, obsVars,
                 ghostVars, raises>>
  /\ UNCHANGED <<launchVars, sideVars, libraries>>

CancelDrain ==
  /\ cancel_pc = "draining"
  /\ DrainStep
  /\ UNCHANGED <<batchVars, is_cancelled, active_executor, ex_shutdown,
                 num_threads, idle_semaphore, acVars,
                 taskVars, buttons_enabled, cancel_shown, window, obsVars,
                 ghostVars, raises>>
  /\ UNCHANGED <<launchVars, sideVars, libraries>>

\* ------------------------------------------------------ specification
Next ==
  \/ RunUrlScrapeThread
  \/ SetupServices
  \/ BeginBatch
  \/ CreatePool
  \/ Submit
  \/ MarkInitial
  \/ AsCompletedNext
  \/ CancelPendingFuture
  \/ ReportCancelled
  \/ ProcessResult
  \/ JoinThreads
  \/ Finish
  \/ HandleFatal
  \/ WorkerTake
  \/ \E i \in Urls : Fetch(i)
  \/ \E i \in Urls : Upload(i)
  \/ CancelOperation
  \/ OnClosing
  \/ CancelShutdown
  \/ CancelDrain

Spec == Init /\ [][Next]_vars
SpecRaise == InitRaise /\ [][Next]_vars

\* Two clicks on a start button, lists of at most MaxUrlsRepeat URLs: a batch
\* after a batch.
InitRepeat == BatchInit(0, MaxClicks, MaxUrlsRepeat) /\ OneTaskOff /\ PollOff
SpecRepeat == InitRepeat /\ [][Next]_vars

\* ------------------------- _scrape_and_upload_url, one call by itself
\* n times the element x.
Rep(x, n) == [k \in 1..n |-> x]

\* Uploads in the order of the returned tuple: movies, shows, collections.
ReturnOrder(in) ==
  Rep("movie", in.movies) \o Rep("show", in.shows)
    \o Rep("collection", in.collections)

\* Lines 154-161: the three loops, collections, then movies, then shows.
UploadOrder(in) ==
  Rep("collection", in.collections) \o Rep("movie", in.movies)
    \o Rep("show", in.shows)

\* Line 151: total_posters.
TotalPosters(in) == in.movies + in.shows + in.collections

\* What scrape_url returns (the number of movie, show and collection
\* descriptors) and which call raises: none (-1), scrape_url (0) or the
\* j-th process_poster.
TaskInputs ==
  [movies : 0..MaxPerKind, shows : 0..MaxPerKind, collections : 0..MaxPerKind,
   raise_at : -1..(3 * MaxPerKind)]

InitTask ==
  /\ BatchInit(0, 0, 0)
  /\ t_pc = "start" /\ t_in \in TaskInputs
  /\ t_calls = <<>> /\ t_result = NoResult
  /\ PollOff

\* Lines 145 and 168-174: scrape_url raises, or returns the three lists;
\* with no descriptor the task returns (0, None) at line 167.
ScrapeUrl ==
  /\ t_pc = "start"
  /\ t_calls' = Append(t_calls, "scrape_url")
  /\ IF t_in.raise_at = 0
       THEN t_result' = [count |-> 0, err |-> TRUE] /\ t_pc' = "returned"
       ELSE IF TotalPosters(t_in) = 0
         THEN t_result' = [count |-> 0, err |-> FALSE] /\ t_pc' = "returned"
         ELSE t_pc' = "uploading" /\ UNCHANGED t_result
  /\ UNCHANGED <<t_in, batchVars, is_cancelled, active_executor, poolVars,
                 acVars, taskVars, guiVars, obsVars, ghostVars, raises,
                 launchVars, libraries, pollVars>>

\* Lines 154-174: the next process_poster call; it raises (line 168, result
\* (0, error)), or it returns and after the last one the task returns
\* (total_posters, None).
ProcessPoster ==
  /\ t_pc = "uploading"
  /\ LET j == Len(t_calls) IN
       /\ t_calls' = Append(t_calls, UploadOrder(t_in)[j])
       /\ IF t_in.raise_at = j
            THEN t_result' = [count |-> 0, err |-> TRUE] /\ t_pc' = "returned"
            ELSE IF j = TotalPosters(t_in)
              THEN /\ t_result' = [count |-> TotalPosters(t_in), err |-> FALSE]
                   /\ t_pc' = "returned"
              ELSE UNCHANGED <<t_pc, t_result>>
  /\ UNCHANGED <<t_in, batchVars, is_cancelled, active_executor, poolVars,
                 acVars, taskVars, guiVars, obsVars, ghostVars, raises,
                 launchVars, libraries, pollVars>>

NextTask ==
  \/ ScrapeUrl
  \/ ProcessPoster

SpecTask == InitTask /\ [][NextTask]_vars

\* ------------------------------------ poll_pin, one call by itself
\* plex_auth_service.py. Time is counted in units of poll_interval: a
\* requests.get takes 0..MaxPollTime units, a time.sleep(poll_interval) at
\* least one.
Token == "T"

\* An element of a parsed document: its tag, the names of its attributes that
\* hold the token, its text, its child elements.
Elem(tag, attrs, text, kids) ==
  [tag |-> tag, attrs |-> attrs, text |-> text, kids |-> kids]
NoElem == Elem(None, {}, "", {})

\* Element.find(tag): a child with that tag, or None.
Find(e, tag) ==
  IF \E k \in e.kids : k.tag = tag
    THEN CHOOSE k \in e.kids : k.tag = tag
    ELSE NoElem

\* bool(element): None is false, and so is an element without children.
ElemTruthy(e) == e # NoElem /\ e.kids # {}

\* Element.findtext(tag) and Element.get(name).
FindText(e, tag) == IF Find(e, tag) = NoElem THEN None ELSE Find(e, tag).text
Get(e, name) == IF name \in e.attrs THEN Token ELSE None

\* Python's "a or b" on strings and None.
Or(a, b) == IF a \notin {None, ""} THEN a ELSE b

\* Line 158: pin2 = root2.find('pin') or root2.
PinOf(root2) ==
  IF ElemTruthy(Find(root2, "pin")) THEN Find(root2, "pin") ELSE root2

\* Line 160: the five places the token is looked for on pin2.
AuthToken(root2) ==
  LET pin2 == PinOf(root2) IN
    Or(FindText(pin2, "authToken"),
       Or(FindText(pin2, "auth_token"),
          Or(Get(pin2, "authToken"),
             Or(Get(pin2, "auth_token"), Get(pin2, "auth")))))

\* Where a pin element carries the token: nowhere, in a child element or in
\* an attribute.
TokenPlaces ==
  {[at |-> "none", name |-> ""]}
    \cup [at : {"child"}, name : {"authToken", "auth_token"}]
    \cup [at : {"attr"}, name : {"authToken", "auth_token", "auth"}]

\* A <pin> element with the token at that place and, possibly, a child
\* element of another kind (Plex sends a <location> child).
Pin(place, other) ==
  Elem("pin",
       IF place.at = "attr" THEN {place.name} ELSE {},
       "",
       (IF place.at = "child" THEN {Elem(place.name, {}, Token, {})} ELSE {})
         \cup (IF other THEN {Elem("location", {}, "", {})} ELSE {}))

\* The documents a poll can be answered with: the pin as the root (what Plex
\* sends) or inside another root element.
Documents ==
  {Pin(pl, o) : pl \in TokenPlaces, o \in BOOLEAN}
    \cup {Elem("response", {}, "", {Pin(pl, o)}) : pl \in TokenPlaces, o \in BOOLEAN}

\* Lines 154-157: requests.get raises, raise_for_status raises,
\* ET.fromstring raises, or the body parses to a document.
Responses ==
  [kind : {"transport_error", "http_error", "not_xml"}, root : {NoElem}]
    \cup [kind : {"xml"}, root : Documents]

\* Lines 153-168: the token a poll yields; any exception is swallowed.
PollToken(r) == IF r.kind = "xml" THEN AuthToken(r.root) ELSE None

\* Lines 135-146: the call has started, start = time.time().
InitPoll ==
  /\ BatchInit(0, 0, 0) /\ OneTaskOff
  /\ p_pc = "check"
  /\ p_timeout \in 0..MaxTimeout
  /\ p_bad_interval \in BOOLEAN
  /\ p_elapsed = 0 /\ p_polls = <<>> /\ p_result = NoReturn

notPollVars == <<batchVars, is_cancelled, active_executor, poolVars, acVars,
                 taskVars, guiVars, obsVars, ghostVars, raises, launchVars,
                 libraries, oneTaskVars>>

PollReturn(token, error) ==
  /\ p_result' = [token |-> token, error |-> error, info |-> "id"]
  /\ p_pc' = "returned"

\* Lines 148-150: the timeout check at the head of the loop.
CheckTimeout ==
  /\ p_pc = "check"
  /\ IF p_elapsed > p_timeout
       THEN PollReturn(None, "Timed out waiting for user to authorize PIN")
       ELSE p_pc' = "poll" /\ UNCHANGED p_result
  /\ UNCHANGED <<p_timeout, p_bad_interval, p_elapsed, p_polls, notPollVars>>

\* Lines 152-168: one poll; with a token the call returns it.
PollOnce ==
  /\ p_pc = "poll"
  /\ \E r \in Responses, d \in 0..MaxPollTime :
       /\ p_polls' = Append(p_polls, r)
       /\ p_elapsed' = p_elapsed + d
       /\ IF PollToken(r) \notin {None, ""}
            THEN PollReturn(PollToken(r), None)
            ELSE p_pc' = "sleep" /\ UNCHANGED p_result
  /\ UNCHANGED <<p_timeout, p_bad_interval, notPollVars>>

\* Line 170: time.sleep(poll_interval); a negative interval raises
\* ValueError, which lines 171-172 turn into (None, str(e), info).
Sleep ==
  /\ p_pc = "sleep"
  /\ IF p_bad_interval
       THEN /\ PollReturn(None, "sleep length must be non-negative")
            /\ UNCHANGED p_elapsed
       ELSE /\ \E d \in 1..MaxSleepTime : p_elapsed' = p_elapsed + d
            /\ p_pc' = "check" /\ UNCHANGED p_result
  /\ UNCHANGED <<p_timeout, p_bad_interval, p_polls, notPollVars>>

NextPoll ==
  \/ CheckTimeout
  \/ PollOnce
  \/ Sleep

SpecPoll == InitPoll /\ [][NextPoll]_vars

\* ------------------------------------------------------------- properties
\* The batch has run to its end.
BatchDone == pc = "done"
\* The batch got past service setup with a pool of at least one worker.
BatchRan == BatchDone /\ max_workers >= 1 /\ submitted >= 1
\* cancel() has set the flag during this batch.
CancelRequested == cancel_at # -1
\* cancel() has been called since the click that started the batch: by the
\* cancel button (shown from line 42 on) or by closing the window.
CancelCalled == CancelRequested \/ ~window
\* The URLs whose result the loop has processed (one progress call each).
Processed == {progress[k].url : k \in 2..Len(progress)}
\* The tasks that ran to completion.
Returned == Finished
\* The tasks that called the fetch.
Fetched == {i \in Urls : fetch_calls[i] > 0}
Kinds == {outcome[k].kind : k \in 1..Len(outcome)}

\* C1: once cancel() has set is_cancelled, no task that has not started
\* begins executing: no future goes to RUNNING in a step taken with the flag
\* set by cancel().
C1_NoStartAfterCancel ==
  [][(is_cancelled /\ CancelRequested)
       => \A i \in Urls : fstate'[i] = "RUNNING" => fstate[i] = "RUNNING"]_vars

\* C2: after a cancellation the completed count the batch reports equals the
\* number of tasks that ran to completion.
C2_CancelledCountExact ==
  BatchDone =>
    \A k \in 1..Len(outcome) :
      outcome[k].kind = "cancelled" => outcome[k].completed = Cardinality(Returned)

C4_RunningWithinPool == Cardinality(Running) <= max_workers

C4_PoolSaturated ==
  max_workers = 1 /\ Cardinality(Running) = 1 /\ work_queue # <<>>

\* C5: the number of completion snapshots (calls of _update_progress after
\* the first one of line 41) is n without cancellation and the number of
\* tasks that finished with cancellation.
C5_SnapshotPerCompletion ==
  (BatchRan /\ exc = "none") =>
    Len(progress) - 1 = IF CancelRequested THEN Cardinality(Returned) ELSE total_urls

\* C6: completed never decreases, grows by at most 1 in a step and never
\* exceeds total, also when a callback of the observer raises.
C6_CompletedBounded ==
  [][/\ completed' >= completed
     /\ completed' <= completed + 1
     /\ completed' <= total_urls']_vars

\* C7: at every point total_posters_uploaded is the sum of poster_count over
\* the processed tasks that returned no error.
C7_PostersSum ==
  total_posters_uploaded = SumOver(res_count, {i \in Processed : ~res_err[i]})

C7_TwoResultsSummed ==
  /\ Processed = {1, 2} /\ res_count[1] = 2 /\ res_count[2] = 2
  /\ ~res_err[1] /\ ~res_err[2] /\ total_posters_uploaded = 4

\* C8: a batch in which cancel() is never called finishes with
\* completed = total = len(urls), the flag false, and the success summary
\* reporting the accumulated total_posters_uploaded.
C8_NoCancelSuccess ==
  (BatchRan /\ ~CancelCalled) =>
    /\ completed = total_urls /\ submitted = total_urls
    /\ ~is_cancelled
    /\ outcome = <<[kind |-> "success", completed |-> total_urls,
                    posters |-> total_posters_uploaded]>>
    /\ total_posters_uploaded =
         SumOver(res_count, {i \in 1..total_urls : ~res_err[i]})

C8_SuccessOfTwo ==
  /\ BatchRan /\ ~CancelCalled /\ total_urls = 2 /\ max_workers = 2
  /\ completed = 2 /\ total_posters_uploaded = 4 /\ Kinds = {"success"}

\* C9: a task whose fetch or upload raised has returned (0, error); no
\* exception reaches the batch thread, the other tasks run and are counted,
\* completed reaches total, and the rows marked 'error' are exactly those of
\* the failing URLs.
C9_TaskErrorContained ==
  /\ \A i \in Urls :
       fail_at[i] # -1 => fstate[i] = "FINISHED" /\ res_count[i] = 0 /\ res_err[i]
  /\ (BatchRan /\ ~CancelCalled) =>
       /\ exc = "none"
       /\ completed = total_urls
       /\ Processed = 1..total_urls
       /\ \A i \in 1..total_urls :
            (\E k \in 1..Len(rows[i]) : rows[i][k] = "error") <=> fail_at[i] # -1

C9_OneFailsOtherCounted ==
  /\ BatchRan /\ ~CancelCalled /\ total_urls = 2 /\ completed = 2
  /\ fail_at[1] = 0 /\ fail_at[2] = -1 /\ res_count[2] = 2
  /\ total_posters_uploaded = 2

\* C10 as stated: an upload that raises does not abort the remaining
\* descriptors; a task whose fetch returned has called the upload for every
\* descriptor by the time it returns.
C10_AllDescriptorsAttempted ==
  \A i \in Urls :
    (fstate[i] = "FINISHED" /\ fetch_calls[i] = 1 /\ fail_at[i] # 0)
      => upload_calls[i] = nposters[i]

\* C10: an upload that raises is caught by the task's one handler: the task
\* ends there with (0, error) and the descriptors after the failing one are
\* not attempted; a task in which nothing raised has called the upload for
\* every descriptor and returns their number.
C10_UploadErrorAborts ==
  \A i \in Urls :
    /\ fail_at[i] >= 1 =>
         /\ fstate[i] = "FINISHED"
         /\ upload_calls[i] = fail_at[i] /\ upload_calls[i] <= nposters[i]
         /\ res_count[i] = 0 /\ res_err[i]
    /\ (fail_at[i] = -1 /\ fstate[i] = "FINISHED") =>
         /\ upload_calls[i] = nposters[i]
         /\ res_count[i] = nposters[i] /\ ~res_err[i]

C10_SecondDescriptorSkipped ==
  \E i \in Urls :
    /\ fstate[i] = "FINISHED" /\ fail_at[i] = 1
    /\ nposters[i] = 2 /\ upload_calls[i] = 1

\* process_scrape_urls got past service setup (the call of line 41 was made).
PastSetup == Len(progress) >= 1

\* C11: every task result is (count, no error) or (0, error); with an error
\* the reported count is 0 although the uploads made before the failing one
\* stay made.
C11_ResultShape ==
  \A i \in Urls :
    fstate[i] = "FINISHED" =>
      /\ res_err[i] <=> fail_at[i] # -1
      /\ res_err[i] => res_count[i] = 0
      /\ ~res_err[i] => res_count[i] = nposters[i] /\ upload_calls[i] = nposters[i]
      /\ fail_at[i] >= 1 => upload_calls[i] = fail_at[i]

C11_PartialUploadKept ==
  \E i \in Urls :
    /\ fstate[i] = "FINISHED" /\ fail_at[i] = 2 /\ upload_calls[i] = 2
    /\ res_err[i] /\ res_count[i] = 0 /\ i \in Processed

\* process_scrape_urls is running (from line 28 to its return).
InInvocation == pc \notin {"idle", "done"}

\* C12: within one invocation of process_scrape_urls, is_cancelled once True
\* is not set back to False by any step, whatever cancel() interleaves.
C12_FlagNeverReverts ==
  [][(is_cancelled /\ InInvocation) => is_cancelled']_vars

\* C13: cancel() does not interrupt a task that is executing: whatever the
\* flag and the executor say, a RUNNING task can take its next step (the fetch
\* or its next upload); a task in which nothing raised returns only after
\* the upload of every descriptor, with their number; the batch does not end
\* while a task is executing; a cancelled future never called the fetch or
\* an upload.
C13_RunningNotInterrupted ==
  /\ \A i \in Urls :
       /\ fstate[i] = "RUNNING" => ENABLED (Fetch(i) \/ Upload(i))
       /\ (fstate[i] = "FINISHED" /\ fail_at[i] = -1) =>
            /\ upload_calls[i] = nposters[i]
            /\ res_count[i] = nposters[i] /\ ~res_err[i]
       /\ fstate[i] \in {"CANCELLED", "CANCELLED_AND_NOTIFIED"} =>
            fetch_calls[i] = 0 /\ upload_calls[i] = 0
  /\ BatchDone => Running = {}

\* cancel() has returned, the executor is shut down, and a task is between
\* its first and its second upload.
C13_UploadingAfterCancel ==
  /\ is_cancelled /\ CancelRequested /\ cancel_pc = "idle" /\ ex_shutdown
  /\ \E i \in Urls :
       /\ fstate[i] = "RUNNING" /\ fetch_calls[i] = 1
       /\ nposters[i] = 2 /\ upload_calls[i] = 1

\* C14: a cancel() never shows as a failure: in a batch whose pool was
\* created, with cancel() called at any point, no exception travels up the
\* batch thread, no 'Error:' status is emitted, and a row is marked 'error'
\* only for a URL whose fetch or upload raised.
C14_CancelNeverFailure ==
  (CancelRequested /\ max_workers >= 1) =>
    /\ exc = "none"
    /\ "error" \notin Kinds
    /\ \A i \in Urls :
         (\E k \in 1..Len(rows[i]) : rows[i][k] = "error") => fail_at[i] # -1

\* C15: a batch that got past service setup has, at its end, emitted exactly
\* one final status: cancelled if cancel() was called during the batch,
\* otherwise success, or error.
C15_ExactlyOneOutcome ==
  (BatchDone /\ PastSetup) =>
    /\ Len(outcome) = 1
    /\ outcome[1].kind \in {"cancelled", "success", "error"}
    /\ outcome[1].kind = "cancelled" => CancelRequested
    /\ outcome[1].kind = "success" => ~CancelRequested

\* A step of a cancel() called after an earlier cancel() of the batch has
\* returned: the cancel button is disabled by the call it made, so the later
\* call is the one of _on_closing.
RepeatedCancelStep ==
  /\ ~cancel_enabled /\ CancelRequested
  /\ OnClosing \/ (~window /\ (CancelShutdown \/ CancelDrain))

\* C16: a repeated cancel() has no effect of its own: none of its steps
\* changes the flag, the executor, a future, a task, the exception of
\* the batch thread or what the observer was told.
C16_RepeatedCancelNoEffect ==
  [][RepeatedCancelStep =>
       UNCHANGED <<is_cancelled, ex_shutdown, fstate, exc, taskVars, obsVars>>]_vars

\* What does hold of a repeated cancel() (C16): it leaves the flag True,
\* raises nothing and tells the observer nothing; if there is no executor, or
\* the executor was shut down before the call reached it, the call finds no
\* future left to cancel and leaves the executor and every future as they
\* are.
RepeatedCancelAfterShutdown ==
  [][RepeatedCancelStep =>
       /\ is_cancelled /\ is_cancelled'
       /\ UNCHANGED <<exc, taskVars, obsVars>>
       /\ (~active_executor \/ (ex_shutdown /\ cancel_pc = "flagged")) =>
            /\ UNCHANGED <<ex_shutdown, fstate>>
            /\ \A k \in 1..Len(work_queue) : fstate[work_queue[k]] # "PENDING"]_vars

\* How many of the futures of done_order were already done when as_completed
\* took its snapshot of the finished futures.
EarlyCount == IF ac_started THEN early_left ELSE Len(done_order)

\* The futures as_completed may yield next: any of those that were done
\* before it started, as long as one is left; then the one done first.
EarliestDone ==
  IF EarlyCount = 0 THEN {Head(done_order)}
  ELSE {done_order[k] : k \in 1..EarlyCount}

C18_ActiveWorkers ==
  \A k \in 1..Len(progress) :
    progress[k].active = Min(total_urls - progress[k].completed, max_workers)

\* C19: for an empty URL list no task runs, no error is reported and the
\* outcome shows nothing done and nothing cancelled.
C19_EmptyList ==
  (pc = "done" /\ total_urls = 0) =>
    /\ Kinds = {"no_urls"}
    /\ Fetched = {} /\ \A i \in Urls : fstate[i] = "NONE" /\ upload_calls[i] = 0
    /\ submitted = 0 /\ completed = 0 /\ progress = <<>>
    /\ \A i \in Urls : rows[i] = <<>>
    /\ buttons_enabled

C19_NothingToDo ==
  pc = "done" /\ total_urls = 0 /\ Len(outcome) = 1 /\ outcome[1].kind = "no_urls"

\* C20: when the pool cannot be created (max_workers < 1) the batch is
\* aborted: nothing is submitted, no task runs, and the batch ends with the
\* error status.
C20_PoolFailureAborts ==
  (PastSetup /\ max_workers < 1) =>
    /\ submitted = 0 /\ Fetched = {} /\ ~active_executor
    /\ \A i \in Urls : fstate[i] = "NONE" /\ upload_calls[i] = 0
    /\ pc \in {"pool", "except", "done"}
    /\ pc = "except" => exc = "pool"
    /\ pc = "done" => Kinds = {"error"} /\ exc = "pool" /\ buttons_enabled

C20_FatalReported ==
  /\ pc = "done" /\ total_urls = 3 /\ max_workers = 0 /\ exc = "pool"
  /\ Kinds = {"error"}

\* C21: one task per URL, submitted in list order and all before the loop
\* starts; a task starts at most once (only from PENDING, never again after
\* it finished, one fetch at most); the step that emits a snapshot names the
\* URL the yielded future was submitted for, marks that URL's row with the
\* task's own result, and gives no other row a result.
C21_OneTaskPerUrl ==
  [][/\ submitted' # submitted =>
          /\ submitted' = submitted + 1 /\ submitted' <= total_urls
          /\ fstate[submitted'] = "NONE" /\ fstate'[submitted'] = "PENDING"
     /\ (pc = "submit" /\ pc' = "loop") =>
          {i \in Urls : fstate[i] # "NONE"} = 1..total_urls
     /\ \A i \in Urls :
          /\ fetch_calls'[i] <= 1
          /\ fstate[i] = "FINISHED" => fstate'[i] = "FINISHED"
          /\ (fstate'[i] = "RUNNING" /\ fstate[i] # "RUNNING") =>
               fstate[i] = "PENDING" /\ fetch_calls[i] = 0
     /\ Len(progress') > Len(progress) /\ Len(progress) >= 1 =>
          LET s == progress'[Len(progress')]
              status == IF res_err[future] THEN "error" ELSE "completed"
          IN /\ s.url = future /\ fstate[future] = "FINISHED"
             /\ \E k \in Len(rows[future]) + 1 .. Len(rows'[future]) :
                  rows'[future][k] = status
             /\ \A j \in Urls \ {future} :
                  \A k \in Len(rows[j]) + 1 .. Len(rows'[j]) :
                    rows'[j][k] = "processing"]_vars

\* URL 2's task succeeded and was processed first, URL 1's failed and was
\* processed second: each row and snapshot carries its own task's result.
C21_OutOfOrderAttributed ==
  /\ total_urls = 2 /\ Len(progress) = 3
  /\ progress[2].url = 2 /\ progress[3].url = 1
  /\ fail_at[1] = 0 /\ fail_at[2] = -1
  /\ \E k \in 1..Len(rows[1]) : rows[1][k] = "error"
  /\ \E k \in 1..Len(rows[2]) : rows[2][k] = "completed"

\* The kind of the k-th upload of a task whose fetch returned the lists of
\* its input: collections first, then movies, then shows.
ExpectedKind(k) ==
  IF k <= t_in.collections THEN "collection"
  ELSE IF k <= t_in.collections + t_in.movies THEN "movie" ELSE "show"

C23_NoLostUpdate ==
  /\ completed = Cardinality(Processed)
  /\ Len(progress) >= 1 => Len(progress) - 1 = Cardinality(Processed)
  /\ completed <= Cardinality(Finished)
  /\ total_posters_uploaded =
       SumOver(res_count, {i \in Processed : ~res_err[i]})

\* Three tasks on two workers: while the first result is being counted the
\* next one is already waiting, and both had uploads.
C23_ResultsOverlap ==
  /\ total_urls = 3 /\ max_workers = 2
  /\ pc = "process" /\ completed = 1 /\ ac_ready # <<>>
  /\ total_posters_uploaded = 2 /\ res_count[future] = 2 /\ ~res_err[future]

\* The k-th call received by the observer is the row call that reports the
\* result of URL u.
IsResultOf(k, u) ==
  k >= 1 /\ events[k].url = u /\ events[k].kind \in {"completed", "error"}

\* The calls up to the k-th that report a result.
ResultsUpTo(k) ==
  {j \in 1..k : events[j].kind \in {"completed", "error"}}

\* C24 as stated: the snapshot of a result is emitted before the
\* 'processing' call for the next URL: every completion snapshot directly
\* follows the row call that reports its result.
C24_SnapshotBeforeNext ==
  \A k \in 1..Len(events) :
    (events[k].kind = "progress" /\ events[k].url # 0) =>
      IsResultOf(k - 1, events[k].url)

\* C24: the counters are updated before the 'processing' call for the next
\* URL, and the snapshot is emitted after it: a completion snapshot follows
\* the row call of its result either directly (no row left to mark) or
\* with exactly the 'processing' call in between, and that call marks row
\* c + max_workers, where c already counts this result.
C24_CountThenNextThenSnapshot ==
  \A k \in 1..Len(events) :
    (events[k].kind = "progress" /\ events[k].url # 0) =>
      LET c == Cardinality(ResultsUpTo(k)) IN
        IF NextRow(c) <= total_urls
          THEN /\ k >= 3
               /\ events[k - 1] = Event("processing", NextRow(c))
               /\ IsResultOf(k - 2, events[k].url)
          ELSE IsResultOf(k - 1, events[k].url)

\* Three URLs, one worker: the first result is reported, row 2 is marked
\* 'processing', then the first snapshot is emitted.
C24_NextMarkedFirst ==
  /\ total_urls = 3 /\ max_workers = 1 /\ Len(events) = 5
  /\ events[3] = Event("completed", 1)
  /\ events[4] = Event("processing", 2)
  /\ events[5] = Event("progress", 1)

\* C28: a row marked 'completed' or 'error' is not marked 'processing'
\* afterwards, and when a batch ends without any cancel() the last mark of
\* every URL's row is 'completed' or 'error'.
C28_ResultStaysOnRow ==
  /\ \A i \in Urls : \A k, l \in 1..Len(rows[i]) :
       (k < l /\ rows[i][k] \in {"completed", "error"}) => rows[i][l] # "processing"
  /\ (BatchRan /\ ~CancelCalled) =>
       \A i \in 1..total_urls :
         rows[i] # <<>> /\ rows[i][Len(rows[i])] \in {"completed", "error"}

\* C30: when _setup_services leaves neither TV nor movie libraries, the
\* invocation is over: 'Plex setup incomplete' is its only status, the
\* progress display and the cancel button are hidden, the buttons enabled
\* again; no pool was created, nothing submitted, no task ran; is_cancelled
\* was not written (it is True only if the window was closed meanwhile) and
\* active_executor is still None.
C30_SetupIncomplete ==
  libraries = "none" =>
    /\ pc = "done" /\ Kinds = {"incomplete"} /\ Len(outcome) = 1
    /\ buttons_enabled /\ ~cancel_shown
    /\ progress = <<>> /\ events = <<>>
    /\ ~active_executor /\ ~ex_shutdown /\ num_threads = 0 /\ submitted = 0
    /\ \A i \in Urls :
         fstate[i] = "NONE" /\ fetch_calls[i] = 0 /\ upload_calls[i] = 0
    /\ is_cancelled <=> ~window

\* A list of three URLs was started and the batch ended at the library check.
C30_IncompleteReported ==
  /\ libraries = "none" /\ pc = "done" /\ total_urls = 3
  /\ outcome = <<[kind |-> "incomplete", completed |-> 0, posters |-> 0]>>

\* A step of the program itself: of the batch thread, of a worker thread or
\* of a cancel() that is under way; everything but a new user action.
ProgramStep ==
  \/ SetupServices \/ BeginBatch \/ CreatePool \/ Submit \/ MarkInitial
  \/ AsCompletedNext \/ CancelPendingFuture \/ ReportCancelled
  \/ ProcessResult \/ JoinThreads \/ Finish \/ HandleFatal
  \/ WorkerTake \/ (\E i \in Urls : Fetch(i)) \/ (\E i \in Urls : Upload(i))
  \/ CancelShutdown \/ CancelDrain

\* C26: an invocation cannot get stuck: as long as it has not returned (and
\* the window is open) the batch thread, a worker or the cancel() under way
\* can take a step; the buttons are disabled during the whole invocation and
\* enabled when it has returned, with no task of the batch executing.
C26_TerminatesButtonsLast ==
  /\ (InInvocation /\ window) => ENABLED ProgramStep
  /\ InInvocation => ~buttons_enabled
  /\ (BatchDone /\ libraries # "unknown") => buttons_enabled /\ Running = {}

\* C27: while a batch runs with the cancel button shown and the button has
\* not been pressed in this batch (no cancel() since line 39), the button is
\* enabled, in a first batch and in a batch after another.
C27_CancelButtonEnabled ==
  (window /\ InBatch /\ cancel_shown /\ cancel_at = -1) => cancel_enabled

\* A click on a start button.
StartClicked == clicks_left' # clicks_left

\* C29: the start buttons are disabled during the whole invocation, and a
\* click on a start button is handled only when no invocation is in progress:
\* the batch thread has not started or has returned, no task of an earlier
\* batch is executing or queued, no cancel() is under way.
C29_OneBatchAtATime ==
  [][/\ InInvocation => ~buttons_enabled
     /\ StartClicked =>
          /\ ~InInvocation
          /\ Running = {} /\ work_queue = <<>>
          /\ cancel_pc = "idle"]_vars

\* A second batch has run to its success summary after a first batch in
\* which the cancel button was pressed.
C29_SecondBatchRan ==
  /\ clicks_left = 0 /\ pc = "done" /\ Kinds = {"success"}
  /\ window /\ ~cancel_enabled

\* The response of a poll holds an auth token: its <pin> element, the root
\* or a child of the root, has it in a child element or in an attribute.
HoldsToken(e) ==
  /\ e.tag = "pin"
  /\ \/ e.attrs \cap {"authToken", "auth_token", "auth"} # {}
     \/ \E k \in e.kids : k.tag \in {"authToken", "auth_token"} /\ k.text = Token
ContainsToken(r) ==
  r.kind = "xml" /\ (HoldsToken(r.root) \/ \E k \in r.root.kids : HoldsToken(k))

\* What poll_pin returns on a timeout.
TimedOut ==
  [token |-> None, error |-> "Timed out waiting for user to authorize PIN",
   info |-> "id"]

\* C25: a poll whose response holds a token is the last one and its token is
\* returned (token, None, info); a poll is made only within the timeout; a
\* return without a token is the timeout return, made once more than timeout
\* has elapsed (or the error of the sleep call), never the effect of a failed
\* poll; the call cannot get stuck and makes at most timeout + 1 polls; of
\* token and error exactly one is None.
C25_PollPin ==
  /\ \A k \in 1..Len(p_polls) :
       ContainsToken(p_polls[k]) =>
         /\ k = Len(p_polls) /\ p_pc = "returned"
         /\ p_result = [token |-> Token, error |-> None, info |-> "id"]
  /\ p_pc = "poll" => p_elapsed <= p_timeout
  /\ (p_pc = "returned" /\ p_result.token = None) =>
       \/ p_result = TimedOut /\ p_elapsed > p_timeout
       \/ p_bad_interval /\ p_result.error # None
  /\ p_pc \in {"check", "poll", "sleep"} => ENABLED NextPoll
  /\ Len(p_polls) <= p_timeout + 1
  /\ p_pc = "returned" => ((p_result.token = None) # (p_result.error = None))

====
